---- MODULE Spec2Model ----
(***************************************************************************)
(* State-machine model of the study-map mobile client.                     *)
(*                                                                         *)
(*   FollowScreen  (src/unnamed/part_000)                                  *)
(*       fetchData, handleFollowToggle with optimistic update and rollback *)
(*   HomeScreen    (src/mobile-frontend/mobile-study-map/app/(tabs)/       *)
(*                  index.tsx)                                             *)
(*       fetchStudySpaces, the onSnapshot listener, bringSpaceToTop,       *)
(*       the study-space Marker onPress, getGlowStyle                      *)
(*                                                                         *)
(* React semantics used throughout: a state setter called with an updater  *)
(* function applies the updaters in call order, so the variable holding a  *)
(* piece of state is the value after every updater queued so far; what a   *)
(* handler's closure reads is the value of the last render (rendered).     *)
(* Updates made inside a press handler are flushed before the next event   *)
(* is dispatched; updates made from a promise continuation are rendered by *)
(* a later task (action Render).                                           *)
(***************************************************************************)
EXTENDS Integers, Sequences, FiniteSets, TLC

VARIABLES
    \* ---- FollowScreen ----
    following,      \* useState([])   part_000:10
    users,          \* useState([])   part_000:9  (the ids of the rows)
    loading,        \* useState(true) part_000:11
    rendered,       \* what the last render showed / what closures captured
    fetchPc,        \* position of fetchData
    handlers,       \* handleFollowToggle invocations not yet finished, in issue order
    server,         \* the backend's following array of the current user
    started,        \* number of handleFollowToggle calls so far
    last,           \* the handleFollowToggle invocation that finished last
    \* ---- FollowScreen: the user changes while the screen is mounted ----
    user,           \* useAuth().user: "none" (null) or a uid   part_000:8
    fetches,        \* fetchData invocations not yet finished, in start order
    effectPending,  \* the effect of part_000:14-34 has to run (mount, or user changed)
    userChanges,    \* number of changes of the user so far
    \* ---- HomeScreen: study spaces ----
    studySpaces,    \* useState<StudySpace[]>([])  index.tsx:157
    collection,     \* the backend studySpaces collection
    snapshots,      \* onSnapshot callbacks not yet delivered, in order
    emitted,        \* the contents the listener was last told about
    getAllPc,       \* position of fetchStudySpaces
    getAllResult,   \* what getAllStudySpaces read
    changes,        \* number of backend changes so far
    pressed,        \* the entry whose marker was pressed last
    \* ---- bringSpaceToTop as a function ----
    topIn, topArg, topOnce, topTwice, topPc,
    \* ---- getGlowStyle as a function ----
    glowIn, glowOut

mountVars == <<user, fetches, effectPending, userChanges>>
followVars == <<following, users, loading, rendered, fetchPc, handlers, server, started, last>>
homeVars == <<studySpaces, collection, snapshots, emitted, getAllPc, getAllResult, changes, pressed>>
topVars == <<topIn, topArg, topOnce, topTwice, topPc>>
glowVars == <<glowIn, glowOut>>
vars == <<followVars, mountVars, homeVars, topVars, glowVars>>

\* what the actions of one part leave alone: the state of the other parts
outsideFollow == <<mountVars, homeVars, topVars, glowVars>>
outsideHome == <<followVars, mountVars, topVars, glowVars>>
outsideTop == <<followVars, mountVars, homeVars, glowVars>>
outsideGlow == <<followVars, mountVars, homeVars, topVars>>

(***************************************************************************)
(* Bounds                                                                  *)
(***************************************************************************)
MaxToggles == 3
MaxChanges == 2
MaxLen == 3
MaxUserChanges == 2

\* the other users of the application (rows of the follow list)
Targets == {"a", "b"}

(***************************************************************************)
(* Array helpers (JavaScript Array.prototype)                              *)
(***************************************************************************)
\* Array.prototype.includes
Includes(list, x) == \E i \in 1..Len(list) : list[i] = x

\* number of occurrences of x
Count(list, x) == Cardinality({i \in 1..Len(list) : list[i] = x})

\* sequences over S of length at most n
SeqsUpTo(S, n) == UNION {[1..k -> S] : k \in 0..n}

NoDuplicates(list) == \A i, j \in 1..Len(list) : list[i] = list[j] => i = j

(***************************************************************************)
(* FollowScreen                                                            *)
(***************************************************************************)
NoHandler == [t |-> "none", closure |-> <<>>, isCurrentlyFollowing |-> FALSE,
              phase |-> "none", before |-> <<>>, alone |-> FALSE, calls |-> 0, desired |-> FALSE,
              atCall |-> <<>>, resumedFrom |-> <<>>, after |-> <<>>]

View == [following |-> following, users |-> users, loading |-> loading]

\* part_000:9-11, 14-15, 33: the state after the first render, fetchData started
\* with an authenticated user; the backend array has no duplicates.
InitFollow ==
    /\ following = <<>>
    /\ users = {}
    /\ loading = TRUE
    /\ rendered = [following |-> <<>>, users |-> {}, loading |-> TRUE]
    /\ fetchPc = "getUserProfile"
    /\ handlers = <<>>
    /\ server \in {s \in SeqsUpTo(Targets, Cardinality(Targets)) : NoDuplicates(s)}
    /\ started = 0
    /\ last = NoHandler

FollowIdle ==
    /\ following = <<>>
    /\ users = {}
    /\ loading = TRUE
    /\ rendered = [following |-> <<>>, users |-> {}, loading |-> TRUE]
    /\ fetchPc = "unmounted"
    /\ handlers = <<>>
    /\ server = <<>>
    /\ started = 0
    /\ last = NoHandler

\* no handler is between its optimistic update and its backend call
\* (JavaScript runs a handler to its first await without interleaving)
NoneRunning == \A i \in 1..Len(handlers) : handlers[i].phase # "optimistic"

\* part_000:20-21  getUserProfile resolved: setFollowing(profile?.following || [])
GetUserProfileResolves ==
    /\ fetchPc = "getUserProfile"
    /\ NoneRunning
    /\ following' = server
    /\ fetchPc' = "fetchAllUsersExceptCurrent"
    /\ UNCHANGED <<users, loading, rendered, handlers, server, started, last>>
    /\ UNCHANGED outsideFollow

\* part_000:20, 26-30  getUserProfile rejected: catch, finally setLoading(false)
GetUserProfileRejects ==
    /\ fetchPc = "getUserProfile"
    /\ NoneRunning
    /\ loading' = FALSE
    /\ fetchPc' = "done"
    /\ UNCHANGED <<following, users, rendered, handlers, server, started, last>>
    /\ UNCHANGED outsideFollow

\* part_000:24-25, 28-30  fetchAllUsersExceptCurrent resolved
FetchAllUsersResolves ==
    /\ fetchPc = "fetchAllUsersExceptCurrent"
    /\ NoneRunning
    /\ users' = Targets
    /\ loading' = FALSE
    /\ fetchPc' = "done"
    /\ UNCHANGED <<following, rendered, handlers, server, started, last>>
    /\ UNCHANGED outsideFollow

\* part_000:24, 26-30  fetchAllUsersExceptCurrent rejected
FetchAllUsersRejects ==
    /\ fetchPc = "fetchAllUsersExceptCurrent"
    /\ NoneRunning
    /\ loading' = FALSE
    /\ fetchPc' = "done"
    /\ UNCHANGED <<following, users, rendered, handlers, server, started, last>>
    /\ UNCHANGED outsideFollow

\* part_000:60-94  the component function runs again with the current state
Render ==
    /\ fetchPc # "unmounted"
    /\ NoneRunning
    /\ rendered # View
    /\ rendered' = View
    /\ UNCHANGED <<following, users, loading, fetchPc, handlers, server, started, last>>
    /\ UNCHANGED outsideFollow

\* the optimistic update with the unfollow branch forgotten
OptimisticUpdateAppendOnly(prev, targetUserId, isCurrentlyFollowing) ==
    Append(prev, targetUserId)

\* part_000:42-44  the updater of the optimistic update
OptimisticUpdate(prev, targetUserId, isCurrentlyFollowing) ==
    IF isCurrentlyFollowing
    THEN SelectSeq(prev, LAMBDA id : id # targetUserId)
    ELSE Append(prev, targetUserId)

\* part_000:52-56  the updater of the rollback; closureFollowing is the
\* following array the handler's closure captured
RevertUpdate(prev, targetUserId, closureFollowing) ==
    IF ~Includes(closureFollowing, targetUserId)
    THEN SelectSeq(prev, LAMBDA id : id # targetUserId)
    ELSE Append(prev, targetUserId)

\* part_000:47  the desired state passed to toggleFollowUser
DesiredState(isCurrentlyFollowing) == ~isCurrentlyFollowing

\* part_000:37-44, 76-81  a press on the row of targetUserId: the handler reads
\* the rendered following array and queues the optimistic update
HandleFollowToggle(targetUserId) ==
    /\ fetchPc # "unmounted"
    /\ NoneRunning
    /\ started < MaxToggles
    /\ ~rendered.loading
    /\ targetUserId \in rendered.users
    /\ LET isCurrentlyFollowing == Includes(rendered.following, targetUserId)
           h == [t |-> targetUserId, closure |-> rendered.following,
                 isCurrentlyFollowing |-> isCurrentlyFollowing,
                 phase |-> "optimistic", before |-> following,
                 alone |-> (handlers = <<>>), calls |-> 0, desired |-> FALSE,
                 atCall |-> <<>>, resumedFrom |-> <<>>, after |-> <<>>]
       IN /\ following' = OptimisticUpdate(following, targetUserId, isCurrentlyFollowing)
          /\ handlers' = Append([i \in 1..Len(handlers) |->
                                    [handlers[i] EXCEPT !.alone = FALSE]], h)
    /\ started' = started + 1
    /\ UNCHANGED <<users, loading, rendered, fetchPc, server, last>>
    /\ UNCHANGED outsideFollow

\* part_000:47  the handler calls toggleFollowUser and suspends at the await;
\* the press event ends and React flushes the update it queued
CallToggleFollowUser ==
    /\ Len(handlers) > 0
    /\ handlers[Len(handlers)].phase = "optimistic"
    /\ LET n == Len(handlers)
           h == handlers[n]
       IN handlers' = [handlers EXCEPT ![n] =
                          [h EXCEPT !.phase = "sent",
                                    !.calls = h.calls + 1,
                                    !.desired = DesiredState(h.isCurrentlyFollowing),
                                    !.atCall = following]]
    /\ rendered' = View
    /\ UNCHANGED <<following, users, loading, fetchPc, server, started, last>>
    /\ UNCHANGED outsideFollow

\* the request the backend has to handle next: the oldest one still "sent"
IsOldestSent(i) ==
    /\ i \in 1..Len(handlers)
    /\ handlers[i].phase = "sent"
    /\ \A j \in 1..(i - 1) : handlers[j].phase # "sent"

\* backendFunctions.toggleFollowUser: the backend's following array after the write
ApplyToggle(array, targetUserId, desired) ==
    IF desired
    THEN IF Includes(array, targetUserId) THEN array ELSE Append(array, targetUserId)
    ELSE SelectSeq(array, LAMBDA id : id # targetUserId)

\* backendFunctions.toggleFollowUser succeeds: the write is applied
ToggleFollowUserSucceeds ==
    /\ NoneRunning
    /\ \E i \in 1..Len(handlers) :
        /\ IsOldestSent(i)
        /\ server' = ApplyToggle(server, handlers[i].t, handlers[i].desired)
        /\ handlers' = [handlers EXCEPT ![i].phase = "resolved"]
    /\ UNCHANGED <<following, users, loading, rendered, fetchPc, started, last>>
    /\ UNCHANGED outsideFollow

\* backendFunctions.toggleFollowUser fails: nothing is written
ToggleFollowUserFails ==
    /\ NoneRunning
    /\ \E i \in 1..Len(handlers) :
        /\ IsOldestSent(i)
        /\ handlers' = [handlers EXCEPT ![i].phase = "rejected"]
    /\ UNCHANGED <<following, users, loading, rendered, fetchPc, server, started, last>>
    /\ UNCHANGED outsideFollow

Remove(list, i) == [k \in 1..(Len(list) - 1) |-> IF k < i THEN list[k] ELSE list[k + 1]]

\* part_000:47, 58  the awaited promise resolved: the handler returns
HandlerResolved ==
    /\ NoneRunning
    /\ \E i \in 1..Len(handlers) :
        /\ handlers[i].phase = "resolved"
        /\ last' = [handlers[i] EXCEPT !.resumedFrom = following, !.after = following]
        /\ handlers' = Remove(handlers, i)
    /\ UNCHANGED <<following, users, loading, rendered, fetchPc, server, started>>
    /\ UNCHANGED outsideFollow

\* part_000:48-57  the awaited promise rejected: the catch block reverts
HandlerRejected ==
    /\ NoneRunning
    /\ \E i \in 1..Len(handlers) :
        /\ handlers[i].phase = "rejected"
        /\ LET h == handlers[i]
           IN /\ following' = RevertUpdate(following, h.t, h.closure)
              /\ last' = [h EXCEPT !.resumedFrom = following, !.after = following']
        /\ handlers' = Remove(handlers, i)
    /\ UNCHANGED <<users, loading, rendered, fetchPc, server, started>>
    /\ UNCHANGED outsideFollow

NextFollow ==
    \/ GetUserProfileResolves
    \/ GetUserProfileRejects
    \/ FetchAllUsersResolves
    \/ FetchAllUsersRejects
    \/ Render
    \/ \E t \in Targets : HandleFollowToggle(t)
    \/ CallToggleFollowUser
    \/ ToggleFollowUserSucceeds
    \/ ToggleFollowUserFails
    \/ HandlerResolved
    \/ HandlerRejected

(***************************************************************************)
(* FollowScreen: mounting, and fetching again when the user changes        *)
(***************************************************************************)
\* useAuth().user: no user, or one of two accounts
AuthUsers == {"none", "u1", "u2"}

\* part_000:20-21  what getUserProfile can resolve to: currentUserProfile?.following || []
ProfileFollowings == {s \in SeqsUpTo(Targets, Cardinality(Targets)) : NoDuplicates(s)}

\* the user is fixed and the effect has run: the setting of SpecFollow
MountIdle ==
    /\ user = "u1"
    /\ fetches = <<>>
    /\ effectPending = FALSE
    /\ userChanges = 0

\* part_000:8-14  the state after the first render, the effect not yet run
InitMount ==
    /\ following = <<>>
    /\ users = {}
    /\ loading = TRUE
    /\ rendered = [following |-> <<>>, users |-> {}, loading |-> TRUE]
    /\ fetchPc = "perInvocation"
    /\ handlers = <<>>
    /\ server = <<>>
    /\ started = 0
    /\ last = NoHandler
    /\ user \in AuthUsers
    /\ fetches = <<>>
    /\ effectPending = TRUE
    /\ userChanges = 0

mountFrame == <<rendered, fetchPc, handlers, server, started, last, homeVars, topVars, glowVars>>

\* fetchData returning from inside try without a user, as if the return stood before the try
LoadingAfterEarlyReturnNoFinally(current) == current

\* part_000:17, 28-30  if (!user || !user.uid) return; the finally block still runs
LoadingAfterEarlyReturn(current) == FALSE

\* part_000:28-30  finally { setLoading(false) }
LoadingAfterFinally(current) == FALSE

\* part_000:14-17, 20, 33  the effect runs fetchData up to its first await
RunEffect ==
    /\ effectPending
    /\ effectPending' = FALSE
    /\ IF user = "none"
       THEN /\ loading' = LoadingAfterEarlyReturn(loading)
            /\ UNCHANGED fetches
       ELSE /\ fetches' = Append(fetches, [uid |-> user, pc |-> "getUserProfile"])
            /\ UNCHANGED loading
    /\ UNCHANGED <<following, users, user, userChanges>>
    /\ UNCHANGED mountFrame

\* part_000:8, 34  useAuth() gives another user: the effect depends on [user]
UserChanges ==
    /\ ~effectPending
    /\ userChanges < MaxUserChanges
    /\ \E u \in AuthUsers : u # user /\ user' = u
    /\ effectPending' = TRUE
    /\ userChanges' = userChanges + 1
    /\ UNCHANGED <<following, users, loading, fetches>>
    /\ UNCHANGED mountFrame

\* part_000:20-21  getUserProfile of invocation i resolved
ProfileResolves(i) ==
    /\ i \in 1..Len(fetches)
    /\ fetches[i].pc = "getUserProfile"
    /\ \E f \in ProfileFollowings : following' = f
    /\ fetches' = [fetches EXCEPT ![i].pc = "fetchAllUsersExceptCurrent"]
    /\ UNCHANGED <<users, loading, user, effectPending, userChanges>>
    /\ UNCHANGED mountFrame

\* part_000:20, 26-30  getUserProfile of invocation i rejected
ProfileRejects(i) ==
    /\ i \in 1..Len(fetches)
    /\ fetches[i].pc = "getUserProfile"
    /\ loading' = LoadingAfterFinally(loading)
    /\ fetches' = Remove(fetches, i)
    /\ UNCHANGED <<following, users, user, effectPending, userChanges>>
    /\ UNCHANGED mountFrame

\* part_000:24-25, 28-30  fetchAllUsersExceptCurrent of invocation i resolved
OtherUsersResolve(i) ==
    /\ i \in 1..Len(fetches)
    /\ fetches[i].pc = "fetchAllUsersExceptCurrent"
    /\ users' = Targets
    /\ loading' = LoadingAfterFinally(loading)
    /\ fetches' = Remove(fetches, i)
    /\ UNCHANGED <<following, user, effectPending, userChanges>>
    /\ UNCHANGED mountFrame

\* part_000:24, 26-30  fetchAllUsersExceptCurrent of invocation i rejected
OtherUsersReject(i) ==
    /\ i \in 1..Len(fetches)
    /\ fetches[i].pc = "fetchAllUsersExceptCurrent"
    /\ loading' = LoadingAfterFinally(loading)
    /\ fetches' = Remove(fetches, i)
    /\ UNCHANGED <<following, users, user, effectPending, userChanges>>
    /\ UNCHANGED mountFrame

\* some backend call of some fetchData invocation resolves or rejects
BackendResponds ==
    \E i \in 1..(MaxUserChanges + 1) :
        \/ ProfileResolves(i)
        \/ ProfileRejects(i)
        \/ OtherUsersResolve(i)
        \/ OtherUsersReject(i)

NextMount ==
    \/ RunEffect
    \/ UserChanges
    \/ BackendResponds
    \/ Render

(***************************************************************************)
(* HomeScreen: study spaces                                                *)
(***************************************************************************)
\* document ids of the studySpaces collection, in the order a snapshot lists them
DocIds == <<"s1", "s2">>

\* values of the spaceId field stored in a document (index.tsx:91)
SpaceIdValues == {"s1", "s2"}

DocIdSet == {DocIds[i] : i \in 1..Len(DocIds)}

\* index.tsx:82-93  a StudySpace as the screen holds it: the document id (id)
\* and the stored spaceId field; the other fields take no part in any decision
Entries == [id : DocIdSet, spaceId : SpaceIdValues]

\* contents of the collection: at most one document per id
Contents == {c \in SUBSET Entries : \A d, e \in c : d.id = e.id => d = e}

\* index.tsx:176  snapshot.docs.map(doc => ({ id: doc.id, ...doc.data() }))
RECURSIVE DocsFrom(_, _)
DocsFrom(c, i) ==
    IF i > Len(DocIds) THEN <<>>
    ELSE LET here == {d \in c : d.id = DocIds[i]}
         IN (IF here = {} THEN <<>> ELSE <<CHOOSE d \in here : TRUE>>) \o DocsFrom(c, i + 1)

SnapshotDocs(c) == DocsFrom(c, 1)

\* backendFunctions.getAllStudySpaces: one entry per document read
GetAllStudySpaces(c) == DocsFrom(c, 1)

\* index.tsx:157, 160-181  the state after the first render: both effects ran,
\* the one-shot read is requested and the listener is attached
InitHome ==
    /\ studySpaces = <<>>
    /\ collection \in Contents
    /\ snapshots = <<>>
    /\ emitted = <<>>
    /\ getAllPc = "requested"
    /\ getAllResult = <<>>
    /\ changes = 0
    /\ pressed = <<>>

HomeIdle ==
    /\ studySpaces = <<>>
    /\ collection = {}
    /\ snapshots = <<>>
    /\ emitted = <<>>
    /\ getAllPc = "unmounted"
    /\ getAllResult = <<>>
    /\ changes = 0
    /\ pressed = <<>>

\* another client writes the collection: a document is added, rewritten or deleted
BackendChange ==
    /\ getAllPc # "unmounted"
    /\ changes < MaxChanges
    /\ \E c \in Contents :
        /\ c # collection
        /\ \E id \in DocIdSet : {d \in c : d.id # id} = {d \in collection : d.id # id}
        /\ collection' = c
    /\ changes' = changes + 1
    /\ UNCHANGED <<studySpaces, snapshots, emitted, getAllPc, getAllResult, pressed>>
    /\ UNCHANGED outsideHome

\* index.tsx:175  the SDK queues a callback with the current contents (the first
\* one right after attaching, then one whenever the contents differ)
SnapshotEmitted ==
    /\ getAllPc # "unmounted"
    /\ emitted # <<collection>>
    /\ snapshots' = Append(snapshots, SnapshotDocs(collection))
    /\ emitted' = <<collection>>
    /\ UNCHANGED <<studySpaces, collection, getAllPc, getAllResult, changes, pressed>>
    /\ UNCHANGED outsideHome

\* index.tsx:175-178  the onSnapshot callback runs
SnapshotDelivered ==
    /\ Len(snapshots) > 0
    /\ studySpaces' = Head(snapshots)
    /\ snapshots' = Tail(snapshots)
    /\ pressed' = <<>>
    /\ UNCHANGED <<collection, emitted, getAllPc, getAllResult, changes>>
    /\ UNCHANGED outsideHome

\* index.tsx:163  the backend serves the one-shot read
GetAllStudySpacesReads ==
    /\ getAllPc = "requested"
    /\ getAllResult' = GetAllStudySpaces(collection)
    /\ getAllPc' = "responded"
    /\ UNCHANGED <<studySpaces, collection, snapshots, emitted, changes, pressed>>
    /\ UNCHANGED outsideHome

\* index.tsx:163-164  the awaited read resolved: setStudySpaces(spaces)
FetchStudySpacesResolved ==
    /\ getAllPc = "responded"
    /\ studySpaces' = getAllResult
    /\ getAllPc' = "done"
    /\ pressed' = <<>>
    /\ UNCHANGED <<collection, snapshots, emitted, getAllResult, changes>>
    /\ UNCHANGED outsideHome

\* index.tsx:163, 165-167  the awaited read rejected: the error is logged
FetchStudySpacesRejected ==
    /\ getAllPc = "requested"
    /\ getAllPc' = "done"
    /\ UNCHANGED <<studySpaces, collection, snapshots, emitted, getAllResult, changes, pressed>>
    /\ UNCHANGED outsideHome

\* Array.prototype.findIndex on space.id; -1 when no entry matches
FindIndexById(prevSpaces, spaceId) ==
    IF \E i \in 1..Len(prevSpaces) : prevSpaces[i].id = spaceId
    THEN CHOOSE i \in 1..Len(prevSpaces) :
            /\ prevSpaces[i].id = spaceId
            /\ \A j \in 1..(i - 1) : prevSpaces[j].id # spaceId
    ELSE -1

\* bringSpaceToTop with the selected entry left in the rest of the list
BringSpaceToTopKeepsSelected(prevSpaces, spaceId) ==
    LET index == FindIndexById(prevSpaces, spaceId)
    IN IF index = -1 THEN prevSpaces
       ELSE <<prevSpaces[index]>> \o prevSpaces

\* index.tsx:229-238  the updater of bringSpaceToTop
BringSpaceToTop(prevSpaces, spaceId) ==
    LET index == FindIndexById(prevSpaces, spaceId)
    IN IF index = -1 THEN prevSpaces
       ELSE LET selected == prevSpaces[index]
                rest == Remove(prevSpaces, index)
            IN <<selected>> \o rest

\* index.tsx:434  the argument the marker of a space passes to bringSpaceToTop
MarkerArgument(space) == space.spaceId

\* index.tsx:427-435  the marker of the i-th space is pressed
MarkerOnPress(i) ==
    /\ i \in 1..Len(studySpaces)
    /\ studySpaces' = BringSpaceToTop(studySpaces, MarkerArgument(studySpaces[i]))
    /\ pressed' = <<studySpaces[i]>>
    /\ UNCHANGED <<collection, snapshots, emitted, getAllPc, getAllResult, changes>>
    /\ UNCHANGED outsideHome

NextHome ==
    \/ BackendChange
    \/ SnapshotEmitted
    \/ SnapshotDelivered
    \/ GetAllStudySpacesReads
    \/ FetchStudySpacesResolved
    \/ FetchStudySpacesRejected
    \/ \E i \in 1..Len(DocIds) : MarkerOnPress(i)

(***************************************************************************)
(* bringSpaceToTop as a function of its input                              *)
(***************************************************************************)
InitTop ==
    /\ topIn \in SeqsUpTo(Entries, MaxLen)
    /\ topArg \in DocIdSet
    /\ topOnce = <<>>
    /\ topTwice = <<>>
    /\ topPc = "input"

TopIdle ==
    /\ topIn = <<>>
    /\ topArg = "none"
    /\ topOnce = <<>>
    /\ topTwice = <<>>
    /\ topPc = "idle"

\* index.tsx:229-238  bringSpaceToTop(topArg) on a list topIn
ApplyOnce ==
    /\ topPc = "input"
    /\ topOnce' = BringSpaceToTop(topIn, topArg)
    /\ topPc' = "once"
    /\ UNCHANGED <<topIn, topArg, topTwice>>
    /\ UNCHANGED outsideTop

\* index.tsx:229-238  bringSpaceToTop(topArg) again, on the result
ApplyTwice ==
    /\ topPc = "once"
    /\ topTwice' = BringSpaceToTop(topOnce, topArg)
    /\ topPc' = "twice"
    /\ UNCHANGED <<topIn, topArg, topOnce>>
    /\ UNCHANGED outsideTop

NextTop == ApplyOnce \/ ApplyTwice

(***************************************************************************)
(* getGlowStyle as a function of its input                                 *)
(*                                                                         *)
(* JavaScript values are written as strings ("undefined", "null", "true",  *)
(* "false", a session label); an optional object is a sequence of length   *)
(* 0 or 1; opacities are in hundredths.                                    *)
(***************************************************************************)
\* index.tsx:249  30 * 60 * 1000
InactiveAfterMs == 30 * 60 * 1000

\* index.tsx:242  Math.max(0.15, ...), in hundredths
MinOpacity == 15
\* index.tsx:242  Math.min(0.7, ...), in hundredths
MaxOpacity == 70
\* index.tsx:242  the value used when glowOpacity is no number, in hundredths
DefaultOpacity == 50

\* JavaScript truthiness of the values used here
Truthy(v) == v \notin {"undefined", "null", "false", "", "NaN"}

UserIds == {"me", "u1"}
SessionActiveValues == {"true", "false", "undefined"}
SessionTypeValues == {"undefined", "null", "collaborative", "quiet", "individual", "group"}
Nows == {InactiveAfterMs + 10, InactiveAfterMs + 11}
Timestamps == {9, 10, 11, 12, InactiveAfterMs, InactiveAfterMs + 20}
Locations == {<<>>} \cup {<<[timestamp |-> ts]>> : ts \in Timestamps}
CurrentUsers == {<<>>, <<[uid |-> "me"]>>}
SelectedUserIds == {"null", "u1"}
GlowOpacities ==
    {[kind |-> "number", value |-> v] : v \in {0, 14, 15, 40, 70, 71, 100}}
        \cup {[kind |-> "NaN", value |-> 0], [kind |-> "object", value |-> 70],
              [kind |-> "undefined", value |-> 0], [kind |-> "string", value |-> 40]}

UserLocations ==
    [userId : UserIds, sessionActive : SessionActiveValues,
     sessionType : SessionTypeValues, location : Locations]

\* index.tsx:244  currentUser?.uid
OptionalUid(currentUser) == IF currentUser = <<>> THEN "undefined" ELSE currentUser[1].uid

Max(a, b) == IF a >= b THEN a ELSE b
Min(a, b) == IF a <= b THEN a ELSE b

\* the opacity with the lower limit forgotten
OpacityWithoutFloor(glowOpacity) ==
    IF glowOpacity.kind = "number"
    THEN Min(MaxOpacity, glowOpacity.value)
    ELSE DefaultOpacity

\* index.tsx:242  typeof glowOpacity === 'number' && !isNaN(glowOpacity) ? clamp : 0.5
Opacity(glowOpacity) ==
    IF glowOpacity.kind = "number"
    THEN Max(MinOpacity, Min(MaxOpacity, glowOpacity.value))
    ELSE DefaultOpacity

\* the array getGlowStyle returns: the style sheet entry and the inline colours
Glow(style, rgb, op) ==
    [style |-> style, shadowOpacity |-> op,
     borderColor |-> rgb \o <<op>>, shadowColor |-> rgb \o <<op>>]

\* index.tsx:244  is this the current user's own marker
IsSelf(userLocation, currentUser) == userLocation.userId = OptionalUid(currentUser)

\* index.tsx:248  a friend with no session: not active and no session type
NoSession(userLocation) ==
    ~Truthy(userLocation.sessionActive)
        /\ (~Truthy(userLocation.sessionType) \/ userLocation.sessionType = "null")

\* the recency test with the boundary included
IsInactiveFromThirty(userLocation, now) ==
    userLocation.location = <<>>
        \/ now - userLocation.location[1].timestamp >= InactiveAfterMs

\* index.tsx:249  no location, or the last ping is older than 30 minutes
IsInactive(userLocation, now) ==
    userLocation.location = <<>>
        \/ now - userLocation.location[1].timestamp > InactiveAfterMs

\* the session styles with the no-session style as the fallback
SessionGlowUnknownIsOrange(sessionType, op) ==
    IF sessionType = "collaborative" THEN Glow("glowCollaborative", <<75, 228, 123>>, op)
    ELSE IF sessionType = "quiet" THEN Glow("glowQuiet", <<255, 224, 102>>, op)
    ELSE IF sessionType = "individual" THEN Glow("glowIndividual", <<255, 75, 75>>, op)
    ELSE Glow("glowNoSession", <<220, 139, 71>>, op)

\* index.tsx:253-259  the style of an active session by its type
SessionGlow(sessionType, op) ==
    IF sessionType = "collaborative" THEN Glow("glowCollaborative", <<75, 228, 123>>, op)
    ELSE IF sessionType = "quiet" THEN Glow("glowQuiet", <<255, 224, 102>>, op)
    ELSE IF sessionType = "individual" THEN Glow("glowIndividual", <<255, 75, 75>>, op)
    ELSE Glow("glowCollaborative", <<75, 228, 123>>, op)

\* getGlowStyle with the session branches tested before the own-marker branch
getGlowStyleSessionFirst(userLocation, currentUser, selectedUserId, glowOpacity, now) ==
    LET op == Opacity(glowOpacity)
    IN IF Truthy(userLocation.sessionActive)
       THEN SessionGlow(userLocation.sessionType, op)
       ELSE IF IsSelf(userLocation, currentUser)
       THEN Glow("glowSelf", <<100, 180, 255>>, op)
       ELSE IF NoSession(userLocation)
       THEN IF IsInactive(userLocation, now)
            THEN Glow("glowInactive", <<176, 176, 176>>, op)
            ELSE Glow("glowNoSession", <<220, 139, 71>>, op)
       ELSE Glow("glowNoSession", <<220, 139, 71>>, op)

\* index.tsx:240-262
getGlowStyle(userLocation, currentUser, selectedUserId, glowOpacity, now) ==
    LET op == Opacity(glowOpacity)
    IN IF IsSelf(userLocation, currentUser)
       THEN Glow("glowSelf", <<100, 180, 255>>, op)
       ELSE IF NoSession(userLocation)
       THEN IF IsInactive(userLocation, now)
            THEN Glow("glowInactive", <<176, 176, 176>>, op)
            ELSE Glow("glowNoSession", <<220, 139, 71>>, op)
       ELSE IF Truthy(userLocation.sessionActive)
       THEN SessionGlow(userLocation.sessionType, op)
       ELSE Glow("glowNoSession", <<220, 139, 71>>, op)

InitGlow ==
    /\ glowIn \in [userLocation : UserLocations, currentUser : CurrentUsers,
                   selectedUserId : SelectedUserIds, glowOpacity : GlowOpacities,
                   now : Nows]
    /\ glowOut = <<>>

GlowIdle ==
    /\ glowIn = <<>>
    /\ glowOut = <<>>

\* index.tsx:303, 389  a marker is rendered: getGlowStyle is called
CallGetGlowStyle ==
    /\ glowIn # <<>>
    /\ glowOut = <<>>
    /\ glowOut' = <<getGlowStyle(glowIn.userLocation, glowIn.currentUser,
                                 glowIn.selectedUserId, glowIn.glowOpacity, glowIn.now)>>
    /\ UNCHANGED glowIn
    /\ UNCHANGED outsideGlow

NextGlow == CallGetGlowStyle

(***************************************************************************)
(* FollowScreen: properties                                                *)
(***************************************************************************)
SameMembers(l1, l2) == \A u \in Targets : Includes(l1, u) <=> Includes(l2, u)

\* C1: when handleFollowToggle(t) ran with no other toggle in flight and
\* toggleFollowUser rejected, then after the handler finished t is in the
\* following list iff it was in it before the handler started, and the
\* membership of every other user id is unchanged.
RollbackRestoresMembership ==
    (last.phase = "rejected" /\ last.alone) => SameMembers(last.after, last.before)

FollowingHasNoDuplicates == NoDuplicates(following)

\* every request has completed and every handler has returned
FollowQuiescent == started > 0 /\ handlers = <<>> /\ fetchPc = "done"

\* C7: once all requests have completed and all handlers have finished, t is
\* in the local following list iff the backend's following array contains t.
AgreesWithBackendAtQuiescence == FollowQuiescent => SameMembers(following, server)


(***************************************************************************)
(* HomeScreen: properties of the study-space list                          *)
(***************************************************************************)
\* the collection stopped changing, the one-shot read is over and every
\* snapshot callback was delivered
HomeQuiescent == getAllPc = "done" /\ snapshots = <<>> /\ emitted = <<collection>>

\* C4: at quiescence studySpaces holds exactly one entry per document of the
\* collection's latest contents and no entry for a document no longer in it.
LiveDisplayMatchesCollection ==
    HomeQuiescent =>
        /\ {studySpaces[i] : i \in 1..Len(studySpaces)} = collection
        /\ Len(studySpaces) = Cardinality(collection)

\* C9: after the onPress handler of the marker of an entry s ran, and before any
\* further snapshot or fetch result is delivered, s is the first element of
\* studySpaces.
PressedSpaceIsFirst ==
    pressed # <<>> => (Len(studySpaces) > 0 /\ studySpaces[1] = pressed[1])

\* position of the first entry of list whose id is x (0 when there is none)
FirstWithId(list, x) ==
    IF \E i \in 1..Len(list) : list[i].id = x
    THEN CHOOSE i \in 1..Len(list) : list[i].id = x /\ \A j \in 1..(i - 1) : list[j].id # x
    ELSE 0

\* C8: bringSpaceToTop(x) puts the first entry with id x at position 0 followed
\* by every other entry in its previous relative order (same length, same
\* multiset); with no such entry the list is unchanged; applying it twice gives
\* the same list as applying it once.
BringToTopReorders ==
    /\ topPc \in {"once", "twice"} =>
        LET i == FirstWithId(topIn, topArg)
        IN IF i = 0 THEN topOnce = topIn
           ELSE /\ Len(topOnce) = Len(topIn)
                /\ topOnce[1] = topIn[i]
                /\ \A k \in 2..Len(topIn) :
                      topOnce[k] = IF k - 1 < i THEN topIn[k - 1] ELSE topIn[k]
                /\ \A e \in Entries : Count(topOnce, e) = Count(topIn, e)
    /\ topPc = "twice" => topTwice = topOnce

\* bringSpaceToTop was applied twice to a list in which two entries have the
\* id asked for and the first of them is not at the front
MovedFirstOfTwo ==
    /\ topPc = "twice"
    /\ FirstWithId(topIn, topArg) > 1
    /\ Cardinality({i \in 1..Len(topIn) : topIn[i].id = topArg}) >= 2
    /\ topOnce # topIn

(***************************************************************************)
(* getGlowStyle: properties                                                *)
(***************************************************************************)
GlowCalled == glowOut # <<>>

\* the location is the current user's own
OwnLocation ==
    glowIn.currentUser # <<>> /\ glowIn.userLocation.userId = glowIn.currentUser[1].uid

\* the style sheet entry and the colour (without opacity) of the result
GlowLooks == <<glowOut[1].style, SubSeq(glowOut[1].borderColor, 1, 3),
               SubSeq(glowOut[1].shadowColor, 1, 3)>>

Green == <<"glowCollaborative", <<75, 228, 123>>, <<75, 228, 123>>>>
Yellow == <<"glowQuiet", <<255, 224, 102>>, <<255, 224, 102>>>>
Red == <<"glowIndividual", <<255, 75, 75>>, <<255, 75, 75>>>>
Gray == <<"glowInactive", <<176, 176, 176>>, <<176, 176, 176>>>>
Orange == <<"glowNoSession", <<220, 139, 71>>, <<220, 139, 71>>>>
Blue == <<"glowSelf", <<100, 180, 255>>, <<100, 180, 255>>>>

\* C5: for a location that is not the current user's and has sessionActive true,
\* the style is green for 'collaborative', yellow for 'quiet', red for
\* 'individual' and green for any other or missing sessionType, whatever the
\* timestamp and selectedUserId.
SessionTypeDrivesGlow ==
    (GlowCalled /\ ~OwnLocation /\ glowIn.userLocation.sessionActive = "true") =>
        GlowLooks = CASE glowIn.userLocation.sessionType = "collaborative" -> Green
                      [] glowIn.userLocation.sessionType = "quiet" -> Yellow
                      [] glowIn.userLocation.sessionType = "individual" -> Red
                      [] OTHER -> Green

\* a friend in an active session of an unknown type, selected, with an old ping
UnknownTypeIsGreen ==
    /\ GlowCalled /\ ~OwnLocation
    /\ glowIn.userLocation.sessionActive = "true"
    /\ glowIn.userLocation.sessionType = "group"
    /\ glowIn.selectedUserId = glowIn.userLocation.userId
    /\ glowIn.userLocation.location # <<>>
    /\ glowIn.now - glowIn.userLocation.location[1].timestamp > 1800000
    /\ GlowLooks = Green

\* C6: for a location that is not the current user's, with sessionActive false,
\* the style is gray exactly when sessionType is absent and either the location
\* is missing or its timestamp is more than 1,800,000 ms before now; in every
\* other case it is orange.
RecencyDrivesGlow ==
    (GlowCalled /\ ~OwnLocation /\ glowIn.userLocation.sessionActive = "false") =>
        LET absent == glowIn.userLocation.sessionType \in {"undefined", "null"}
            stale == \/ glowIn.userLocation.location = <<>>
                     \/ glowIn.now - glowIn.userLocation.location[1].timestamp > 1800000
        IN GlowLooks = IF absent /\ stale THEN Gray ELSE Orange

\* a friend without session whose last ping is exactly 30 minutes old
ExactlyThirtyMinutesIsOrange ==
    /\ GlowCalled /\ ~OwnLocation
    /\ glowIn.userLocation.sessionActive = "false"
    /\ glowIn.userLocation.sessionType = "undefined"
    /\ glowIn.userLocation.location # <<>>
    /\ glowIn.now - glowIn.userLocation.location[1].timestamp = 1800000
    /\ GlowLooks = Orange

\* C10: whenever userLocation.userId equals the current user's uid the style is
\* blue, whatever sessionActive, sessionType, location and timestamp are; with no
\* current user no location is given the blue style.
OwnMarkerIsBlue ==
    GlowCalled =>
        /\ OwnLocation => GlowLooks = Blue
        /\ glowIn.currentUser = <<>> => GlowLooks # Blue

\* the current user's own location, in an active quiet session
OwnQuietSessionIsBlue ==
    /\ GlowCalled /\ OwnLocation
    /\ glowIn.userLocation.sessionActive = "true"
    /\ glowIn.userLocation.sessionType = "quiet"
    /\ GlowLooks = Blue

\* C11: the shadowOpacity getGlowStyle produces lies in [0.15, 0.7]: a numeric
\* non-NaN argument is clamped to that interval, any argument that is not a
\* number or is NaN gives exactly 0.5; the same value is the opacity of the
\* border colour and of the shadow colour (opacities in hundredths).
GlowOpacityInRange ==
    GlowCalled =>
        LET arg == glowIn.glowOpacity
            op == glowOut[1].shadowOpacity
        IN /\ op >= 15 /\ op <= 70
           /\ arg.kind = "number" =>
                 op = IF arg.value < 15 THEN 15 ELSE IF arg.value > 70 THEN 70 ELSE arg.value
           /\ arg.kind # "number" => op = 50
           /\ glowOut[1].borderColor[4] = op
           /\ glowOut[1].shadowColor[4] = op

\* a numeric opacity below the lower limit was raised to it
LowOpacityIsRaised ==
    /\ GlowCalled
    /\ glowIn.glowOpacity.kind = "number"
    /\ glowIn.glowOpacity.value < 15
    /\ glowOut[1].shadowOpacity = 15
    /\ glowOut[1].borderColor[4] = 15

\* C12: after a mount the loading flag eventually becomes false (no user,
\* getUserProfile failing, fetchAllUsersExceptCurrent failing, or both
\* succeeding, every backend call resolving or rejecting), and once it is false
\* it never becomes true again, also when the user changes and the data is
\* fetched again.
LoadingEndsAndStaysOff ==
    /\ <>(~loading)
    /\ [][~loading => ~loading']_vars

\* the user changed after loading ended and the data is being fetched again
RefetchingWhileLoaded ==
    /\ ~loading
    /\ userChanges > 0
    /\ Len(fetches) > 0
    /\ fetches[Len(fetches)].uid = user

(***************************************************************************)
(* Specifications                                                          *)
(***************************************************************************)
\* FollowScreen mounted with an authenticated user
InitSpecFollow == InitFollow /\ MountIdle /\ HomeIdle /\ TopIdle /\ GlowIdle
SpecFollow == InitSpecFollow /\ [][NextFollow]_vars

\* HomeScreen mounted: the study-space list
InitSpecHome == FollowIdle /\ MountIdle /\ InitHome /\ TopIdle /\ GlowIdle
SpecHome == InitSpecHome /\ [][NextHome]_vars

\* bringSpaceToTop on every list of at most MaxLen entries
InitSpecTop == FollowIdle /\ MountIdle /\ HomeIdle /\ InitTop /\ GlowIdle
SpecTop == InitSpecTop /\ [][NextTop]_vars

\* getGlowStyle on every input
InitSpecGlow == FollowIdle /\ MountIdle /\ HomeIdle /\ TopIdle /\ InitGlow
SpecGlow == InitSpecGlow /\ [][NextGlow]_vars

\* FollowScreen mounted, the user changing; the effect runs after every commit
\* and every backend call is answered
InitSpecMount == InitMount /\ HomeIdle /\ TopIdle /\ GlowIdle
SpecMount ==
    /\ InitSpecMount
    /\ [][NextMount]_vars
    /\ WF_vars(RunEffect)
    /\ WF_vars(BackendResponds)

====
